---- MODULE Spec2Model ----
(***************************************************************************)
(* Model of src/primitives/block.h: CBlockHeader, CBlock and CBlockLocator, *)
(* their serialization views, the identity hash and the proof-of-stake      *)
(* classification.                                                          *)
(*                                                                          *)
(* A byte is a number in 0..255 and a stream is a sequence of bytes.  A     *)
(* uint256 is its 32 bytes.  32-bit integers are written little-endian in   *)
(* four bytes; the unsigned values used here stay below 2^31.               *)
(***************************************************************************)
EXTENDS Integers, Sequences, FiniteSets, TLC

VARIABLES block, stream, last, locator

vars == <<block, stream, last, locator>>

(***************************************************************************)
(* Bounds                                                                   *)
(***************************************************************************)
\* longest transaction sequence of a generated block
MaxTx == 2
\* longest hash sequence of a generated locator
MaxHave == 3

(***************************************************************************)
(* Program constants                                                        *)
(***************************************************************************)
LEGACY_VERSION_1 == 1
LEGACY_VERSION_2 == 2
CURRENT_VERSION == 3

\* the encoding-context flags a stream's type is made of (s.GetType() is a
\* bit mask; a set of flag names stands for it, & is intersection)
SER_NETWORK == "SER_NETWORK"
SER_DISK == "SER_DISK"
SER_GETHASH == "SER_GETHASH"
SER_BLOCKHEADERONLY == "SER_BLOCKHEADERONLY"

(***************************************************************************)
(* The codec framework's primitives (serialize.h, streams.h)                *)
(***************************************************************************)
Repeat(n, b) == [i \in 1..n |-> b]

\* a read result: ok, the value read, the bytes left in the stream
Got(v, rest) == [ok |-> TRUE, val |-> v, rest |-> rest]
\* a failed read throws: no value, s is what the stream still holds
EndOfData(s) == [ok |-> FALSE, val |-> <<>>, rest |-> s]

ReadBytes(s, n) ==
    IF Len(s) >= n
    THEN Got(SubSeq(s, 1, n), SubSeq(s, n + 1, Len(s)))
    ELSE EndOfData(s)

\* 32-bit little-endian, two's complement for a negative value
WriteInt32(v) ==
    << v % 256, (v \div 256) % 256, (v \div 65536) % 256, (v \div 16777216) % 256 >>

LE32(b) == b[1] + 256 * b[2] + 65536 * b[3] + 16777216 * (IF b[4] >= 128 THEN b[4] - 256 ELSE b[4])

ReadInt32(s) ==
    LET r == ReadBytes(s, 4)
    IN  IF r.ok THEN Got(LE32(r.val), r.rest) ELSE r

WriteUint256(h) == h

ReadUint256(s) == ReadBytes(s, 32)

\* the variable-length size prefix: one byte below 253, else 253 and two bytes
WriteCompactSize(n) ==
    IF n < 253 THEN <<n>> ELSE <<253, n % 256, (n \div 256) % 256>>

\* 254 and 255 announce sizes beyond any data of this model; a two-byte size
\* below 253 is not canonical; both throw
ReadCompactSize(s) ==
    LET r == ReadBytes(s, 1)
    IN  IF ~r.ok THEN r
        ELSE IF r.val[1] < 253 THEN Got(r.val[1], r.rest)
        ELSE IF r.val[1] > 253 THEN EndOfData(r.rest)
        ELSE LET q == ReadBytes(r.rest, 2)
             IN  IF ~q.ok THEN EndOfData(r.rest)
                 ELSE IF q.val[1] + 256 * q.val[2] < 253 THEN EndOfData(q.rest)
                 ELSE Got(q.val[1] + 256 * q.val[2], q.rest)

\* std::vector<unsigned char>: size prefix, then the bytes; the vector is
\* cleared before the size is read
WriteByteVector(v) == WriteCompactSize(Len(v)) \o v

ReadByteVector(s) ==
    LET n == ReadCompactSize(s)
    IN  IF ~n.ok THEN EndOfData(n.rest)
        ELSE ReadBytes(n.rest, n.val)

(***************************************************************************)
(* Transactions (primitives/transaction.h): what this file reads of one     *)
(***************************************************************************)
\* a transaction: its timestamp, the outpoint of its first input (0 is the
\* null outpoint) and whether it is a coin-stake transaction
Coinbase == [nTime |-> 1, prevout |-> 0, stake |-> FALSE]
CoinStake == [nTime |-> 2, prevout |-> 7, stake |-> TRUE]
Payment == [nTime |-> 3, prevout |-> 5, stake |-> FALSE]

WriteTx(tx) == <<tx.nTime, tx.prevout, IF tx.stake THEN 1 ELSE 0>>

ReadTx(s) ==
    LET r == ReadBytes(s, 3)
    IN  IF ~r.ok THEN r
        ELSE Got([nTime |-> r.val[1], prevout |-> r.val[2], stake |-> r.val[3] = 1], r.rest)

RECURSIVE WriteTxs(_)
WriteTxs(v) == IF v = <<>> THEN <<>> ELSE WriteTx(Head(v)) \o WriteTxs(Tail(v))

\* std::vector<CTransactionRef>: size prefix, then each transaction
WriteVtx(v) == WriteCompactSize(Len(v)) \o WriteTxs(v)

\* reads n transactions after acc; a failure keeps the ones read so far
\* (the elements not yet decoded are left out)
RECURSIVE ReadTxs(_, _, _)
ReadTxs(s, n, acc) ==
    IF n = 0 THEN Got(acc, s)
    ELSE LET r == ReadTx(s)
         IN  IF ~r.ok THEN [ok |-> FALSE, val |-> acc, rest |-> r.rest]
             ELSE ReadTxs(r.rest, n - 1, Append(acc, r.val))

ReadVtx(s) ==
    LET n == ReadCompactSize(s)
    IN  IF ~n.ok THEN EndOfData(n.rest) ELSE ReadTxs(n.rest, n.val, <<>>)

(***************************************************************************)
(* CBlockHeader                                                             *)
(***************************************************************************)
Null256 == Repeat(32, 0)

\* the six header fields, in declaration order
HeaderFields ==
    <<"nVersion", "hashPrevBlock", "hashMerkleRoot", "nTime", "nBits", "nNonce">>

IsHashField(f) == f \in {"hashPrevBlock", "hashMerkleRoot"}

WriteField(obj, f) == IF IsHashField(f) THEN WriteUint256(obj[f]) ELSE WriteInt32(obj[f])

ReadField(s, f) == IF IsHashField(f) THEN ReadUint256(s) ELSE ReadInt32(s)

RECURSIVE WriteFields(_, _)
WriteFields(obj, fs) ==
    IF fs = <<>> THEN <<>> ELSE WriteField(obj, Head(fs)) \o WriteFields(obj, Tail(fs))

\* each field is stored as soon as it is read; a failed read throws and
\* leaves the fields after it as they were
RECURSIVE ReadFields(_, _, _)
ReadFields(obj, s, fs) ==
    IF fs = <<>> THEN [ok |-> TRUE, obj |-> obj, rest |-> s]
    ELSE LET r == ReadField(s, Head(fs))
         IN  IF ~r.ok THEN [ok |-> FALSE, obj |-> obj, rest |-> r.rest]
             ELSE ReadFields([obj EXCEPT ![Head(fs)] = r.val], r.rest, Tail(fs))

CBlockHeader_Serialize(obj) == WriteFields(obj, HeaderFields)

CBlockHeader_Unserialize(obj, s) == ReadFields(obj, s, HeaderFields)

CBlockHeader_SetNull(obj) ==
    [obj EXCEPT !.nVersion = 0, !.hashPrevBlock = Null256, !.hashMerkleRoot = Null256,
                !.nTime = 0, !.nBits = 0, !.nNonce = 0]

\* the header of a block: the projection on the six fields
GetBlockHeader(obj) == [f \in {HeaderFields[i] : i \in 1..Len(HeaderFields)} |-> obj[f]]

(***************************************************************************)
(* CBlock                                                                   *)
(***************************************************************************)
CBlock_SetNull(obj) ==
    [CBlockHeader_SetNull(obj) EXCEPT !.vtx = <<>>, !.vchBlockSig = <<>>, !.fChecked = FALSE]

\* CBlock(): every field is set by SetNull
NullBlock ==
    CBlock_SetNull([nVersion |-> 0, hashPrevBlock |-> Null256, hashMerkleRoot |-> Null256,
                    nTime |-> 0, nBits |-> 0, nNonce |-> 0,
                    vtx |-> <<>>, vchBlockSig |-> <<>>, fChecked |-> FALSE])

\* CBlock(header): SetNull, then the header fields are copied
CBlock_FromHeader(h) == [f \in DOMAIN NullBlock |-> IF f \in DOMAIN h THEN h[f] ELSE NullBlock[f]]

\* a faulty variant: the header-only flag is not tested
HeaderOnlyView_HashOnly(nType) == SER_GETHASH \in nType

\* s.GetType() & (SER_GETHASH|SER_BLOCKHEADERONLY)
HeaderOnlyView(nType) == nType \cap {SER_GETHASH, SER_BLOCKHEADERONLY} # {}

\* a faulty variant: the signature starts one version late
HasSignature_Later(nVersion) == nVersion > CURRENT_VERSION

\* a faulty variant: the signature is not gated by the version
HasSignature_Always(nVersion) == TRUE

\* this->nVersion >= CBlockHeader::CURRENT_VERSION
HasSignature(nVersion) == nVersion >= CURRENT_VERSION

\* the read branch of the hash-domain / header-only view
ClearOnRead(obj) == [obj EXCEPT !.vtx = <<>>, !.vchBlockSig = <<>>]

CBlock_Serialize(obj, nType) ==
    CBlockHeader_Serialize(obj)
    \o (IF ~HeaderOnlyView(nType)
        THEN WriteVtx(obj.vtx)
             \o (IF HasSignature(obj.nVersion) THEN WriteByteVector(obj.vchBlockSig) ELSE <<>>)
        ELSE <<>>)

\* the read pass of CBlock::SerializationOp.  [ok, obj, rest]: whether it
\* returned, the object it leaves and the bytes it leaves in the stream
CBlock_SerializationOp_Read(obj, s, nType) ==
    LET h == CBlockHeader_Unserialize(obj, s)
    IN  IF ~h.ok THEN h
        ELSE IF HeaderOnlyView(nType)
        THEN [ok |-> TRUE, obj |-> ClearOnRead(h.obj), rest |-> h.rest]
        ELSE LET v == ReadVtx(h.rest)
                 o == [h.obj EXCEPT !.vtx = v.val]
             IN  IF ~v.ok THEN [ok |-> FALSE, obj |-> o, rest |-> v.rest]
                 ELSE IF ~HasSignature(o.nVersion) THEN [ok |-> TRUE, obj |-> o, rest |-> v.rest]
                 ELSE LET g == ReadByteVector(v.rest)
                      IN  [ok |-> g.ok, obj |-> [o EXCEPT !.vchBlockSig = g.val], rest |-> g.rest]

\* a faulty variant: the decode throws when bytes are left after the last field
CBlock_Unserialize_Strict(obj, s, nType) ==
    LET r == CBlock_SerializationOp_Read(obj, s, nType)
    IN  IF r.ok /\ r.rest # <<>> THEN [r EXCEPT !.ok = FALSE] ELSE r

\* Unserialize(s), which ADD_SERIALIZE_METHODS defines: the read pass and
\* nothing after it
CBlock_Unserialize(obj, s, nType) == CBlock_SerializationOp_Read(obj, s, nType)

(***************************************************************************)
(* The identity hash                                                        *)
(***************************************************************************)
\* Hash(pbegin, pend) of hash.h, as a checksum of the byte range
RECURSIVE HashRange(_, _, _)
HashRange(s, lo, hi) ==
    IF lo = hi THEN s[lo] + 1
    ELSE LET mid == (lo + hi) \div 2
         IN  (HashRange(s, lo, mid) * 257 + HashRange(s, mid + 1, hi) * 31 + 7) % 65521

Hash(s) == IF s = <<>> THEN 0 ELSE (HashRange(s, 1, Len(s)) * 31 + Len(s)) % 65521

\* the members of a CBlock object in memory order: the CBlockHeader
\* subobject first, then the members CBlock declares
ObjectLayout == HeaderFields \o <<"vtx", "vchBlockSig", "fChecked">>

IndexOf(f) == CHOOSE i \in 1..Len(ObjectLayout) : ObjectLayout[i] = f

\* the members from BEGIN(first) to END(last_)
MemoryRange(first, last_) == SubSeq(ObjectLayout, IndexOf(first), IndexOf(last_))

\* the bytes of a member in memory (little-endian host)
MemberBytes(obj, f) ==
    IF f \in {HeaderFields[i] : i \in 1..Len(HeaderFields)} THEN WriteField(obj, f)
    ELSE IF f = "vtx" THEN WriteVtx(obj.vtx)
    ELSE IF f = "vchBlockSig" THEN WriteByteVector(obj.vchBlockSig)
    ELSE <<IF obj.fChecked THEN 1 ELSE 0>>

RECURSIVE MemoryBytes(_, _)
MemoryBytes(obj, fs) ==
    IF fs = <<>> THEN <<>> ELSE MemberBytes(obj, Head(fs)) \o MemoryBytes(obj, Tail(fs))

\* a faulty variant: the hashed range runs to the end of the object
GetHash_WholeObject(obj) == Hash(MemoryBytes(obj, MemoryRange("nVersion", "fChecked")))

\* Hash(BEGIN(nVersion), END(nNonce))
GetHash(obj) == Hash(MemoryBytes(obj, MemoryRange("nVersion", "nNonce")))

(***************************************************************************)
(* Inputs                                                                   *)
(***************************************************************************)
HashM == [i \in 1..32 |-> i]
HashP == [i \in 1..32 |-> 255 - i]
HashN == [i \in 1..32 |-> (7 * i) % 256]

Versions == {LEGACY_VERSION_1, LEGACY_VERSION_2, CURRENT_VERSION}

HeaderRests ==
    { [hashPrevBlock |-> Null256, hashMerkleRoot |-> HashM,
       nTime |-> 1231006505, nBits |-> 486604799, nNonce |-> 2083236893],
      [hashPrevBlock |-> HashP, hashMerkleRoot |-> HashN,
       nTime |-> 1400000000, nBits |-> 504365040, nNonce |-> 0] }

Headers ==
    { [f \in {HeaderFields[i] : i \in 1..Len(HeaderFields)} |->
          IF f = "nVersion" THEN v ELSE r[f]] : v \in Versions, r \in HeaderRests }

Signatures == { <<>>, <<48, 69>> }

\* the transaction lists a sender's block may hold: the first transactions
\* of a proof-of-stake block
TxAt(i) == IF i = 1 THEN Coinbase ELSE IF i = 2 THEN CoinStake ELSE Payment

TxLists == { [i \in 1..k |-> TxAt(i)] : k \in 0..MaxTx }

\* the blocks a sender may hold: any header, transactions and signature
SenderBlocks ==
    { [CBlock_FromHeader(h) EXCEPT !.vtx = v, !.vchBlockSig = g] :
        h \in Headers, v \in TxLists, g \in Signatures }

FullTypes == { {SER_NETWORK}, {SER_DISK} }

\* the versions a stream may carry (s.GetVersion())
StreamVersions == { 60002, 70015 }

\* the version of the streams that carry blocks: the newest one
BlockStreamVersion == CHOOSE v \in StreamVersions : \A w \in StreamVersions : v >= w

StreamTypes == FullTypes \cup { {SER_GETHASH}, {SER_DISK, SER_BLOCKHEADERONLY} }

(***************************************************************************)
(* State                                                                    *)
(*   block    the Block object the operations act on                        *)
(*   stream   the data stream: its bytes and type, and the object that was  *)
(*            written to it (src), the bytes cut from its end and the bytes *)
(*            added after its end                                           *)
(*   last     the last operation and what it reported                       *)
(*   locator  the BlockLocator object                                       *)
(***************************************************************************)
NoStream ==
    [open |-> FALSE, vch |-> <<>>, nType |-> {}, nVersion |-> 0, src |-> NullBlock,
     cut |-> 0, extra |-> <<>>]

NullLocator == [vHave |-> <<>>]

Init ==
    /\ block = NullBlock
    /\ stream = NoStream
    /\ last = [op |-> "CBlock"]
    /\ locator = NullLocator

\* CBlock()
Construct ==
    /\ block' = NullBlock
    /\ last' = [op |-> "CBlock"]
    /\ UNCHANGED <<stream, locator>>

\* CBlock(const CBlockHeader&)
ConstructFromHeader ==
    \E h \in Headers :
        /\ block' = CBlock_FromHeader(h)
        /\ last' = [op |-> "CBlock(header)"]
        /\ UNCHANGED <<stream, locator>>

\* CBlock::SetNull
SetNull ==
    /\ block' = CBlock_SetNull(block)
    /\ last' = [op |-> "SetNull"]
    /\ UNCHANGED <<stream, locator>>

\* stream << src, for a sender's block src and a stream of type nType
Serialize(types) ==
    /\ ~stream.open
    /\ \E src \in SenderBlocks, nType \in types :
        stream' = [open |-> TRUE, vch |-> CBlock_Serialize(src, nType), nType |-> nType,
                   nVersion |-> BlockStreamVersion, src |-> src, cut |-> 0, extra |-> <<>>]
    /\ last' = [op |-> "Serialize"]
    /\ UNCHANGED <<block, locator>>

\* stream >> block; the stream is released after the decode, last.left is the
\* number of bytes it still held
Unserialize ==
    /\ stream.open
    /\ LET r == CBlock_Unserialize(block, stream.vch, stream.nType)
       IN  /\ block' = r.obj
           /\ last' = [op |-> "Unserialize", ok |-> r.ok, left |-> Len(r.rest),
                       src |-> stream.src, nType |-> stream.nType, vch |-> stream.vch,
                       fresh |-> block = NullBlock,
                       held |-> block.vtx # <<>> /\ block.vchBlockSig # <<>>]
    /\ stream' = NoStream
    /\ UNCHANGED locator

SerializeAny == Serialize(StreamTypes)

Next ==
    \/ Construct
    \/ ConstructFromHeader
    \/ SetNull
    \/ SerializeAny
    \/ Unserialize

Spec == Init /\ [][Next]_vars

(***************************************************************************)
(* Properties of the block codec, checked under Spec                        *)
(***************************************************************************)
\* the last operation decoded a full-view stream into a newly constructed Block
DecodedFullIntoNew == last.op = "Unserialize" /\ last.fresh /\ last.nType \in FullTypes

\* C1: a Block whose signature is empty whenever its version is below
\* CURRENT_VERSION, encoded in the full view and decoded in the full view into
\* a newly constructed Block, comes back with the same six header fields, the
\* same transactions in the same order and the same signature bytes.
C1_RoundTrip ==
    ( /\ DecodedFullIntoNew
      /\ (last.src.nVersion < CURRENT_VERSION => last.src.vchBlockSig = <<>>) )
    => /\ last.ok
       /\ last.left = 0
       /\ GetBlockHeader(block) = GetBlockHeader(last.src)
       /\ block.vtx = last.src.vtx
       /\ block.vchBlockSig = last.src.vchBlockSig

C1_Witness ==
    /\ DecodedFullIntoNew
    /\ last.src.nVersion = CURRENT_VERSION
    /\ last.src.vchBlockSig # <<>>
    /\ Len(last.src.vtx) = 2
    /\ block.vtx = last.src.vtx
    /\ block.vchBlockSig = last.src.vchBlockSig
    /\ block.hashMerkleRoot # Null256

\* C2: the full-view encoding is the six header fields, then the transaction
\* sequence, then the signature bytes if and only if version >= CURRENT_VERSION;
\* a version 1 Block with a non-empty signature is encoded without it and
\* decodes, into a newly constructed Block, to an empty signature.
C2_VersionGating ==
    /\ (stream.open /\ stream.nType \in FullTypes) =>
          stream.vch = CBlockHeader_Serialize(stream.src)
                       \o WriteVtx(stream.src.vtx)
                       \o (IF stream.src.nVersion >= CURRENT_VERSION
                           THEN WriteByteVector(stream.src.vchBlockSig)
                           ELSE <<>>)
    /\ ( /\ DecodedFullIntoNew
         /\ last.src.nVersion = LEGACY_VERSION_1
         /\ last.src.vchBlockSig # <<>> )
       => last.ok /\ block.vchBlockSig = <<>> /\ block.vtx = last.src.vtx

C2_Witness ==
    /\ DecodedFullIntoNew
    /\ last.src.nVersion = LEGACY_VERSION_1
    /\ last.src.vchBlockSig # <<>>
    /\ last.src.vtx # <<>>
    /\ block.vchBlockSig = <<>>

\* the type of the stream has the hash-domain or the header-only flag
FlaggedHeaderOnly(nType) == SER_GETHASH \in nType \/ SER_BLOCKHEADERONLY \in nType

\* C3: with the hash-domain or the header-only flag set, the encoding of a
\* Block is its six header fields and nothing else, and a decode leaves the
\* Block with no transactions and no signature, whatever it held before.
C3_HeaderOnly ==
    /\ (stream.open /\ FlaggedHeaderOnly(stream.nType)) =>
          stream.vch = CBlockHeader_Serialize(stream.src)
    /\ (last.op = "Unserialize" /\ FlaggedHeaderOnly(last.nType)) =>
          /\ last.ok
          /\ block.vtx = <<>>
          /\ block.vchBlockSig = <<>>
          /\ GetBlockHeader(block) = GetBlockHeader(last.src)

C3_Witness ==
    /\ last.op = "Unserialize"
    /\ SER_BLOCKHEADERONLY \in last.nType
    /\ last.held
    /\ last.src.vtx # <<>>
    /\ last.src.vchBlockSig # <<>>
    /\ block.vtx = <<>>
    /\ block.vchBlockSig = <<>>

\* C8: after any sequence of construction, SetNull and decodes on the same
\* Block, its signature is empty whenever its version is below CURRENT_VERSION.
C8_SignatureOnlyFromCurrentVersion ==
    block.nVersion < CURRENT_VERSION => block.vchBlockSig = <<>>

(***************************************************************************)
(* Malformed streams: a peer's bytes are not the encoding of a Block        *)
(***************************************************************************)
\* the receiver's pattern: every message is decoded into a new Block
SerializeForNew ==
    /\ block = NullBlock
    /\ Serialize(FullTypes)

\* the stream ends k bytes early
Truncate ==
    /\ stream.open /\ stream.cut = 0 /\ stream.extra = <<>>
    /\ \E k \in 1..Len(stream.vch) :
        stream' = [stream EXCEPT !.vch = SubSeq(stream.vch, 1, Len(stream.vch) - k), !.cut = k]
    /\ last' = [op |-> "Truncate"]
    /\ UNCHANGED <<block, locator>>

\* bytes that may follow the encoding: an empty byte vector, an encoded
\* signature, a stray byte
Extras == { WriteByteVector(<<>>), WriteByteVector(<<48, 69>>), <<255>> }

\* the stream goes on after the encoding
Extend ==
    /\ stream.open /\ stream.cut = 0 /\ stream.extra = <<>>
    /\ \E e \in Extras :
        stream' = [stream EXCEPT !.vch = stream.vch \o e, !.extra = e]
    /\ last' = [op |-> "Extend"]
    /\ UNCHANGED <<block, locator>>

NextMalformed ==
    \/ Construct
    \/ SerializeForNew
    \/ Truncate
    \/ Extend
    \/ Unserialize

SpecMalformed == Init /\ [][NextMalformed]_vars

\* the bytes the version field of src licenses in the full view
Licensed(src) ==
    CBlockHeader_Serialize(src)
    \o WriteVtx(src.vtx)
    \o (IF src.nVersion >= CURRENT_VERSION THEN WriteByteVector(src.vchBlockSig) ELSE <<>>)

IsPrefix(p, s) == Len(p) <= Len(s) /\ SubSeq(s, 1, Len(p)) = p

\* C9 as stated: a full-view decode reports a failure for every stream that
\* is not exactly the full-view encoding of a Block.
C9_RejectsAllMalformed ==
    ( /\ last.op = "Unserialize"
      /\ last.nType \in FullTypes
      /\ last.vch # Licensed(last.src) )
    => ~last.ok

\* C9 as amended: a full-view decode fails for every stream that ends before
\* the fields its version field licenses are complete, and the header fields
\* read before the failure stay stored in the Block; a stream that goes on
\* after those fields decodes successfully and the bytes after them stay in
\* the stream.
C9_RejectsTruncatedOnly ==
    ( /\ last.op = "Unserialize" /\ last.nType \in FullTypes )
    => /\ (Len(last.vch) < Len(Licensed(last.src)) /\ IsPrefix(last.vch, Licensed(last.src)))
            => /\ ~last.ok
               /\ \A i \in 1..Len(HeaderFields) :
                     Len(WriteFields(last.src, SubSeq(HeaderFields, 1, i))) <= Len(last.vch)
                        => block[HeaderFields[i]] = last.src[HeaderFields[i]]
       /\ IsPrefix(Licensed(last.src), last.vch)
            => /\ last.ok
               /\ last.left = Len(last.vch) - Len(Licensed(last.src))
               /\ GetBlockHeader(block) = GetBlockHeader(last.src)
               /\ block.vtx = last.src.vtx

\* a version 1 stream that carries a signature decodes successfully
C9_Witness ==
    /\ last.op = "Unserialize"
    /\ last.nType \in FullTypes
    /\ last.src.nVersion = LEGACY_VERSION_1
    /\ last.vch = Licensed(last.src) \o WriteByteVector(<<48, 69>>)
    /\ last.ok
    /\ last.left = 3
    /\ block.vchBlockSig = <<>>

(***************************************************************************)
(* CBlockLocator                                                            *)
(***************************************************************************)
RECURSIVE WriteHashes(_)
WriteHashes(v) == IF v = <<>> THEN <<>> ELSE WriteUint256(Head(v)) \o WriteHashes(Tail(v))

\* std::vector<uint256>: size prefix, then each hash
WriteHashVector(v) == WriteCompactSize(Len(v)) \o WriteHashes(v)

RECURSIVE ReadHashes(_, _, _)
ReadHashes(s, n, acc) ==
    IF n = 0 THEN Got(acc, s)
    ELSE LET r == ReadUint256(s)
         IN  IF ~r.ok THEN [ok |-> FALSE, val |-> acc, rest |-> r.rest]
             ELSE ReadHashes(r.rest, n - 1, Append(acc, r.val))

ReadHashVector(s) ==
    LET n == ReadCompactSize(s)
    IN  IF ~n.ok THEN EndOfData(n.rest) ELSE ReadHashes(n.rest, n.val, <<>>)

\* a faulty variant: the version is written in every context
LocatorHasVersion_Always(nType) == TRUE

\* !(s.GetType() & SER_GETHASH)
LocatorHasVersion(nType) == SER_GETHASH \notin nType

CBlockLocator_Serialize(obj, nType, nVersion) ==
    (IF LocatorHasVersion(nType) THEN WriteInt32(nVersion) ELSE <<>>)
    \o WriteHashVector(obj.vHave)

\* the version read from the stream goes to a local and is dropped
CBlockLocator_Unserialize(obj, s, nType, nVersion) ==
    LET n == IF LocatorHasVersion(nType) THEN ReadInt32(s) ELSE Got(nVersion, s)
    IN  IF ~n.ok THEN [ok |-> FALSE, obj |-> obj, rest |-> n.rest]
        ELSE LET v == ReadHashVector(n.rest)
             IN  [ok |-> v.ok, obj |-> [obj EXCEPT !.vHave = v.val], rest |-> v.rest]

Locators == { [vHave |-> v] : v \in UNION { [1..k -> {HashM, HashP}] : k \in 0..MaxHave } }

\* CBlockLocator(vHaveIn)
LocatorConstruct ==
    /\ \E l \in Locators : locator' = l
    /\ last' = [op |-> "CBlockLocator"]
    /\ UNCHANGED <<block, stream>>

\* CBlockLocator::SetNull
LocatorSetNull ==
    /\ locator' = [locator EXCEPT !.vHave = <<>>]
    /\ last' = [op |-> "LocatorSetNull"]
    /\ UNCHANGED <<block, stream>>

\* stream << locator
LocatorSerialize ==
    /\ ~stream.open
    /\ \E nType \in StreamTypes, nVersion \in StreamVersions :
        stream' = [open |-> TRUE, vch |-> CBlockLocator_Serialize(locator, nType, nVersion),
                   nType |-> nType, nVersion |-> nVersion, src |-> locator,
                   cut |-> 0, extra |-> <<>>]
    /\ last' = [op |-> "LocatorSerialize"]
    /\ UNCHANGED <<block, locator>>

\* stream >> locator
LocatorUnserialize ==
    /\ stream.open
    /\ LET r == CBlockLocator_Unserialize(locator, stream.vch, stream.nType, stream.nVersion)
       IN  /\ locator' = r.obj
           /\ last' = [op |-> "LocatorUnserialize", ok |-> r.ok, left |-> Len(r.rest),
                       src |-> stream.src, nType |-> stream.nType,
                       nVersion |-> stream.nVersion, vch |-> stream.vch,
                       held |-> locator.vHave]
    /\ stream' = NoStream
    /\ UNCHANGED block

NextLocator ==
    \/ LocatorConstruct
    \/ LocatorSetNull
    \/ LocatorSerialize
    \/ LocatorUnserialize

SpecLocator == Init /\ [][NextLocator]_vars

\* C5: a BlockLocator is encoded as the stream's version followed by the
\* length-prefixed hashes, except in the hash-domain context, where only the
\* length-prefixed hashes are written; decoding the bytes in the same context
\* gives the same hashes in the same order.
C5_LocatorCodec ==
    /\ stream.open =>
          stream.vch = (IF SER_GETHASH \in stream.nType THEN <<>> ELSE WriteInt32(stream.nVersion))
                       \o WriteCompactSize(Len(stream.src.vHave))
                       \o WriteHashes(stream.src.vHave)
    /\ last.op = "LocatorUnserialize" =>
          /\ last.ok
          /\ last.left = 0
          /\ locator.vHave = last.src.vHave

C5_Witness ==
    /\ last.op = "LocatorUnserialize"
    /\ SER_GETHASH \in last.nType
    /\ Len(last.src.vHave) = MaxHave
    /\ last.src.vHave[1] # last.src.vHave[2]
    /\ last.held # last.src.vHave
    /\ Len(last.vch) = 1 + 32 * MaxHave
    /\ locator.vHave = last.src.vHave

(***************************************************************************)
(* Proof-of-stake classification                                            *)
(***************************************************************************)
\* the null outpoint, COutPoint()
NullOutPoint == 0

\* *vtx[1]: the second transaction when there is one.  With fewer than two
\* transactions the read is past the end of the vector, which is undefined:
\* the build either goes on with a reference to whatever is there ("stray")
\* or stops the process ("crash").
DerefVtx1(obj) ==
    IF Len(obj.vtx) > 1 THEN {"tx"} ELSE {"stray", "crash"}

Returned(v, oob) == [status |-> "returned", value |-> v, oob |-> oob]
Crashed == [status |-> "crashed", value |-> FALSE, oob |-> TRUE]

\* the outcomes of IsProofOfStake(): the reference is bound first, the size
\* is tested after, and tx.IsCoinStake() is evaluated only when size > 1
IsProofOfStake(obj) ==
    { IF d = "crash" THEN Crashed
      ELSE Returned(Len(obj.vtx) > 1 /\ obj.vtx[2].stake, d # "tx") : d \in DerefVtx1(obj) }

IsProofOfWork(obj) ==
    { IF r.status = "returned" THEN Returned(~r.value, r.oob) ELSE r : r \in IsProofOfStake(obj) }

\* the outcomes of GetProofOfStake(): its own *vtx[1], then IsProofOfStake()
GetProofOfStake(obj) ==
    { IF d = "crash" \/ r.status # "returned" THEN Crashed
      ELSE IF r.value THEN Returned(<<obj.vtx[2].prevout, obj.vtx[2].nTime>>, FALSE)
      ELSE Returned(<<NullOutPoint, 0>>, d # "tx") :
        d \in DerefVtx1(obj), r \in IsProofOfStake(obj) }

\* vtx.push_back(tx), by the code that assembles a block
PushTx ==
    /\ Len(block.vtx) < MaxTx
    /\ \E tx \in {Coinbase, CoinStake, Payment} :
        block' = [block EXCEPT !.vtx = Append(block.vtx, tx)]
    /\ last' = [op |-> "PushTx"]
    /\ UNCHANGED <<stream, locator>>

\* vchBlockSig is assigned by the code that signs a block
Sign ==
    /\ \E g \in Signatures \ {<<>>} : block' = [block EXCEPT !.vchBlockSig = g]
    /\ last' = [op |-> "Sign"]
    /\ UNCHANGED <<stream, locator>>

\* the validation collaborator sets the memory-only flag
MarkChecked ==
    /\ ~block.fChecked
    /\ block' = [block EXCEPT !.fChecked = TRUE]
    /\ last' = [op |-> "MarkChecked"]
    /\ UNCHANGED <<stream, locator>>

CallIsProofOfStake ==
    /\ \E r \in IsProofOfStake(block) : last' = [op |-> "IsProofOfStake", ret |-> r]
    /\ UNCHANGED <<block, stream, locator>>

CallIsProofOfWork ==
    /\ \E r \in IsProofOfWork(block) : last' = [op |-> "IsProofOfWork", ret |-> r]
    /\ UNCHANGED <<block, stream, locator>>

CallGetProofOfStake ==
    /\ \E r \in GetProofOfStake(block) : last' = [op |-> "GetProofOfStake", ret |-> r]
    /\ UNCHANGED <<block, stream, locator>>

NextStake ==
    \/ Construct
    \/ ConstructFromHeader
    \/ SetNull
    \/ PushTx
    \/ Sign
    \/ MarkChecked
    \/ CallIsProofOfStake
    \/ CallIsProofOfWork
    \/ CallGetProofOfStake

SpecStake == Init /\ [][NextStake]_vars

\* C4: GetHash() is a function of the six header fields only: a Block and
\* any Block with the same six header fields and other transactions,
\* signature and checked flag have the same GetHash().
C4_HashOfHeaderOnly ==
    \A v \in TxLists, g \in Signatures, c \in BOOLEAN :
        GetHash([block EXCEPT !.vtx = v, !.vchBlockSig = g, !.fChecked = c]) = GetHash(block)

C4_Witness ==
    /\ block.nBits # 0
    /\ Len(block.vtx) = 2
    /\ block.vchBlockSig # <<>>
    /\ block.fChecked
    /\ GetHash(block) = GetHash(CBlock_FromHeader(GetBlockHeader(block)))
    /\ GetHash(block) # GetHash(NullBlock)

\* the block is proof-of-stake by the rule of the data model
StakeRule(obj) == Len(obj.vtx) >= 2 /\ obj.vtx[2].stake

\* C6: for a Block with at least one transaction, IsProofOfStake() returns
\* true iff the Block has at least 2 transactions and transaction[1] is a stake
\* transaction, and IsProofOfWork() returns the negation.
C6_Classification ==
    (last.op \in {"IsProofOfStake", "IsProofOfWork"} /\ Len(block.vtx) >= 1)
    => /\ last.ret.status = "returned"
       /\ last.ret.value = (IF last.op = "IsProofOfStake" THEN StakeRule(block) ELSE ~StakeRule(block))

\* C7: for a Block with at least one transaction, GetProofOfStake() returns
\* (outpoint of the first input of transaction[1], its timestamp) when the
\* Block is proof-of-stake and (null outpoint, 0) when it is proof-of-work.
C7_StakePair ==
    (last.op = "GetProofOfStake" /\ Len(block.vtx) >= 1)
    => /\ last.ret.status = "returned"
       /\ last.ret.value = (IF StakeRule(block)
                            THEN <<block.vtx[2].prevout, block.vtx[2].nTime>>
                            ELSE <<NullOutPoint, 0>>)

\* C10: on a Block with no transactions the three calls end in an explicit
\* precondition failure: they return nothing and read no element past the end.
C10_FailFast ==
    ( /\ last.op \in {"IsProofOfStake", "IsProofOfWork", "GetProofOfStake"}
      /\ block.vtx = <<>> )
    => last.ret.status = "precondition failure" /\ ~last.ret.oob

====
